---- MODULE Spec2Model ----
(***************************************************************************)
(* Model of the Express + MySQL API server: the storage bootstrap          *)
(* (config/init.js), the request authenticator (middleware/auth.js), the   *)
(* user routes (register, login, profile) and the post routes (CRUD).      *)
(*                                                                         *)
(* Every route handler issues exactly one SQL statement, which the storage *)
(* engine executes atomically, so a handler is one action and concurrent   *)
(* requests are the interleavings of these actions.                        *)
(***************************************************************************)
EXTENDS Integers, Sequences, FiniteSets, TLC

VARIABLES
    pc,          \* position of the server process (server startup, createTables)
    conn,        \* the connection createTables opened: "none", "open", "closed"
    failed,      \* createTables is on its catch path (the error is rethrown)
    idx,         \* loop index of the seeding loops of createTables
    secret,      \* process.env.JWT_SECRET
    schema,      \* what exists in MySQL: subset of {"db", "users", "posts"}
    users,       \* rows of table users
    nextUserId,  \* AUTO_INCREMENT counter of users.id
    posts,       \* rows of table posts
    nextPostId,  \* AUTO_INCREMENT counter of posts.id
    now,         \* wall clock, in hours
    issued,      \* tokens handed out by login (held by clients)
    last,        \* the last request handled and the response sent
    error,       \* the error createTables' catch block received ("" if none)
    run,         \* history: the tables when this run of createTables began,
                 \* how the previous run ended, and the tables it left
    inflight     \* requests being handled: received, awaiting their query

vars == <<pc, conn, failed, idx, secret, schema, users, nextUserId, posts,
          nextPostId, now, issued, last, error, run, inflight>>

store == <<schema, users, nextUserId, posts, nextPostId>>
boot == <<conn, failed, idx>>

-----------------------------------------------------------------------------
(* Bounds of the model *)

MaxUserId == 4      \* no account id above this is allocated
MaxPostId == 6      \* no post id above this is allocated
MaxTokens == 2      \* at most this many distinct tokens are issued
MaxNow == 36        \* the clock stops here (hours)
TickHours == 12     \* granularity of the clock (hours)
MaxInflight == 3    \* at most this many concurrent requests are received

-----------------------------------------------------------------------------
(* Values *)

NULL == "NULL"      \* JavaScript undefined, bound as SQL NULL by the driver

JWT_SECRET == "your-secret-key-here"

S16 == "aaaaaaaaaaaaaaaa"
S64 == S16 \o S16 \o S16 \o S16
LongTitle == S64 \o S64 \o S64 \o S64     \* 256 characters

TitleMaxLen == 255
ExpiresInHours == 24

mockUsers == <<
    [username |-> "johndoe", email |-> "john@example.com", password |-> "password123"],
    [username |-> "janedoe", email |-> "jane@example.com", password |-> "password456"] >>

mockPosts == <<
    [title |-> "Getting Started with Node.js",
     content |-> "Node.js is a powerful JavaScript runtime built on Chrome's V8 engine. It allows developers to build scalable network applications.",
     user_id |-> 1],
    [title |-> "Understanding Express Framework",
     content |-> "Express is a minimal and flexible Node.js web application framework that provides a robust set of features for web and mobile applications.",
     user_id |-> 1],
    [title |-> "MySQL Best Practices",
     content |-> "When working with MySQL, it's important to follow best practices such as using prepared statements, indexing properly, and normalizing your data.",
     user_id |-> 2],
    [title |-> "REST API Design Principles",
     content |-> "RESTful APIs should be stateless, cacheable, and follow standard HTTP methods. Proper resource naming and status codes are essential.",
     user_id |-> 2],
    [title |-> "JWT Authentication Explained",
     content |-> "JSON Web Tokens provide a secure way to transmit information between parties. They consist of three parts: header, payload, and signature.",
     user_id |-> 1] >>

-----------------------------------------------------------------------------
(* bcrypt.  A hash is the self-describing string "$2b$<cost>$<digest>"; the *)
(* digest is modelled by the plaintext it was computed from (the salt it    *)
(* embeds is never consulted by the code).                                  *)

BcryptPrefix == "$2b$10$"

BcryptHashPlain(password) == password

BcryptHash(password) == BcryptPrefix \o password

BcryptCompare(password, hash) == hash = BcryptPrefix \o password

-----------------------------------------------------------------------------
(* jsonwebtoken.  A token carries its claims and a MAC over them keyed by   *)
(* the secret; the MAC is modelled as the tuple of its inputs.              *)

Mac(key, id, email, iat, exp) == <<key, id, email, iat, exp>>

JwtSign(id, email, key, at) ==
    [kind |-> "jwt", id |-> id, email |-> email, iat |-> at,
     exp |-> at + ExpiresInHours,
     sig |-> Mac(key, id, email, at, at + ExpiresInHours)]

JwtVerifyNoExpiry(token, key, at) ==
    /\ key # NULL
    /\ token.kind = "jwt"
    /\ token.sig = Mac(key, token.id, token.email, token.iat, token.exp)

JwtVerifyNoSignature(token, key, at) ==
    /\ key # NULL
    /\ token.kind = "jwt"
    /\ at < token.exp

\* TRUE iff jwt.verify returns the payload; FALSE iff it throws.
JwtVerify(token, key, at) ==
    /\ key # NULL
    /\ token.kind = "jwt"
    /\ token.sig = Mac(key, token.id, token.email, token.iat, token.exp)
    /\ at < token.exp

-----------------------------------------------------------------------------
(* The Authorization header, as the list of its space-separated parts       *)
(* (what split(" ") returns); <<>> is an absent header.                     *)

Word(s) == [kind |-> "word", text |-> s]
Undefined == [kind |-> "undefined"]
Garbage == [kind |-> "malformed"]
NoClaims == [id |-> 0, email |-> NULL]

Falsy(part) == part = Undefined \/ part = Word("")

\* req.headers.authorization?.split(" ")[1]
SecondPart(hdr) == IF Len(hdr) >= 2 THEN hdr[2] ELSE Undefined

authMiddleware(hdr) ==
    LET token == SecondPart(hdr) IN
    IF Falsy(token)
    THEN [next |-> FALSE, status |-> 401, error |-> "No token provided", user |-> NoClaims]
    ELSE IF ~JwtVerify(token, secret, now)
    THEN [next |-> FALSE, status |-> 401, error |-> "Invalid token", user |-> NoClaims]
    ELSE [next |-> TRUE, status |-> 0, error |-> "",
          user |-> [id |-> token.id, email |-> token.email]]

-----------------------------------------------------------------------------
(* MySQL.  Each operator is one SQL statement of the source, evaluated on   *)
(* the current tables; it yields the error the statement raises ("" when    *)
(* none), the table and AUTO_INCREMENT counter it leaves, and the values    *)
(* the driver reports (insertId, affectedRows).  An AUTO_INCREMENT counter  *)
(* hands out the next identifier to each row inserted and never goes back,  *)
(* so identifiers of deleted rows are not reused; the gaps a failed INSERT  *)
(* may leave in the sequence are not modelled.                              *)

UsernameMaxLen == 50
EmailMaxLen == 100
PasswordMaxLen == 255

UserColumnError(username, email, password) ==
    IF username = NULL THEN "Column 'username' cannot be null"
    ELSE IF email = NULL THEN "Column 'email' cannot be null"
    ELSE IF password = NULL THEN "Column 'password' cannot be null"
    ELSE IF Len(username) > UsernameMaxLen THEN "Data too long for column 'username'"
    ELSE IF Len(email) > EmailMaxLen THEN "Data too long for column 'email'"
    ELSE IF Len(password) > PasswordMaxLen THEN "Data too long for column 'password'"
    ELSE ""

UserUniqueErrorUsernameOnly(username, email) ==
    IF \E u \in users : u.username = username THEN "Duplicate entry for key 'users.username'"
    ELSE ""

UserUniqueError(username, email) ==
    IF \E u \in users : u.username = username THEN "Duplicate entry for key 'users.username'"
    ELSE IF \E u \in users : u.email = email THEN "Duplicate entry for key 'users.email'"
    ELSE ""

\* INSERT INTO users (username, email, password) VALUES (?, ?, ?)
InsertUser(username, email, password) ==
    LET colErr == UserColumnError(username, email, password)
        uniqErr == UserUniqueError(username, email)
    IN  IF colErr # ""
        THEN [error |-> colErr, rows |-> users, next |-> nextUserId, insertId |-> 0]
        ELSE IF uniqErr # ""
        THEN [error |-> uniqErr, rows |-> users, next |-> nextUserId, insertId |-> 0]
        ELSE [error |-> "",
              rows |-> users \cup {[id |-> nextUserId, username |-> username,
                                    email |-> email, password |-> password]},
              next |-> nextUserId + 1, insertId |-> nextUserId]

PostColumnError(title, content) ==
    IF title = NULL THEN "Column 'title' cannot be null"
    ELSE IF content = NULL THEN "Column 'content' cannot be null"
    ELSE IF Len(title) > TitleMaxLen THEN "Data too long for column 'title'"
    ELSE ""

\* INSERT INTO posts (title, content, user_id) VALUES (?, ?, ?)
InsertPost(title, content, user_id) ==
    LET colErr == PostColumnError(title, content) IN
    IF colErr # ""
    THEN [error |-> colErr, rows |-> posts, next |-> nextPostId, insertId |-> 0]
    ELSE IF ~\E u \in users : u.id = user_id
    THEN [error |-> "Cannot add or update a child row: a foreign key constraint fails",
          rows |-> posts, next |-> nextPostId, insertId |-> 0]
    ELSE [error |-> "",
          rows |-> posts \cup {[id |-> nextPostId, title |-> title, content |-> content,
                                user_id |-> user_id, created_at |-> now]},
          next |-> nextPostId + 1, insertId |-> nextPostId]

UpdateMatchAnyOwner(tbl, id, user_id) == {p \in tbl : p.id = id}

\* the rows of tbl selected by  WHERE id = ? AND user_id = ?
UpdateMatch(tbl, id, user_id) == {p \in tbl : p.id = id /\ p.user_id = user_id}

AffectedRowsChanged(matched, written) == Cardinality(matched \ written)

\* The driver connects with CLIENT_FOUND_ROWS (mysql2's default flags), so
\* affectedRows counts the rows the WHERE clause matched, changed or not.
AffectedRows(matched, written) == Cardinality(matched)

\* UPDATE posts SET title = ?, content = ? WHERE id = ? AND user_id = ?
\* (a column error is raised when a row is written, so only if one matched)
UpdatePost(tbl, title, content, id, user_id) ==
    LET matched == UpdateMatch(tbl, id, user_id)
        written == {[p EXCEPT !.title = title, !.content = content] : p \in matched}
        colErr == PostColumnError(title, content)
    IN  IF matched # {} /\ colErr # ""
        THEN [error |-> colErr, rows |-> tbl, affectedRows |-> 0]
        ELSE [error |-> "", rows |-> (tbl \ matched) \cup written,
              affectedRows |-> AffectedRows(matched, written)]

\* DELETE FROM posts WHERE id = ? AND user_id = ?
DeletePost(tbl, id, user_id) ==
    LET matched == UpdateMatch(tbl, id, user_id) IN
    [error |-> "", rows |-> tbl \ matched, affectedRows |-> Cardinality(matched)]

-----------------------------------------------------------------------------
(* Server startup and createTables (config/init.js), one action per         *)
(* awaited statement.                                                       *)

NoToken == [kind |-> "none"]
NoUser == [id |-> 0, username |-> NULL, email |-> NULL]
NoBody == [title |-> NULL, content |-> NULL]
NoPost == [id |-> 0, title |-> NULL, content |-> NULL, user_id |-> 0, created_at |-> 0]

\* A handled request (op, hdr, id, body, at) and its response: the HTTP status,
\* the body's error or message text, and the body's postId/userId, token,
\* user, post and list of posts (by id, in the order of the array).
NoRequest ==
    [op |-> "none", hdr |-> <<>>, id |-> 0, body |-> NoBody, at |-> 0,
     status |-> 0, msg |-> "", insertId |-> 0, token |-> NoToken, user |-> NoUser,
     post |-> NoPost, list |-> <<>>]

\* the database as a run of createTables finds or leaves it
Tables == [schema |-> schema, users |-> users, posts |-> posts]

NoTables == [schema |-> {}, users |-> {}, posts |-> {}]

\* the first start of the server on a MySQL server that holds nothing
FirstRun == [begin |-> NoTables, prev |-> "none", successive |-> FALSE, end |-> NoTables]

Init ==
    /\ pc = "connect"
    /\ conn = "none"
    /\ failed = FALSE
    /\ idx = 0
    /\ secret = JWT_SECRET
    /\ schema = {}
    /\ users = {}
    /\ nextUserId = 1
    /\ posts = {}
    /\ nextPostId = 1
    /\ now = 0
    /\ issued = {}
    /\ last = NoRequest
    /\ error = ""
    /\ run = FirstRun
    /\ inflight = {}

\* mysql.createConnection(...)
Connect ==
    /\ pc = "connect"
    /\ pc' = "createDb"
    /\ conn' = "open"
    /\ UNCHANGED <<failed, idx, secret, store, now, issued, last, error, run,
                 inflight>>

\* CREATE DATABASE IF NOT EXISTS
CreateDatabase ==
    /\ pc = "createDb"
    /\ pc' = "useDb"
    /\ schema' = schema \cup {"db"}
    /\ UNCHANGED <<boot, secret, users, nextUserId, posts, nextPostId, now,
                 issued, last, error, run, inflight>>

\* USE <database>
UseDatabase ==
    /\ pc = "useDb"
    /\ pc' = "usersTable"
    /\ UNCHANGED <<boot, secret, store, now, issued, last, error, run,
                 inflight>>

\* CREATE TABLE IF NOT EXISTS users
CreateUsersTable ==
    /\ pc = "usersTable"
    /\ pc' = "postsTable"
    /\ schema' = schema \cup {"users"}
    /\ UNCHANGED <<boot, secret, users, nextUserId, posts, nextPostId, now,
                 issued, last, error, run, inflight>>

\* CREATE TABLE IF NOT EXISTS posts
CreatePostsTable ==
    /\ pc = "postsTable"
    /\ pc' = "countUsers"
    /\ schema' = schema \cup {"posts"}
    /\ UNCHANGED <<boot, secret, users, nextUserId, posts, nextPostId, now,
                 issued, last, error, run, inflight>>

CountRowsNone(tbl) == 0

\* SELECT COUNT(*) as count FROM <table>
CountRows(tbl) == Cardinality(tbl)

\* SELECT COUNT(*) as count FROM users;  if (count === 0) ...
CountUsers ==
    /\ pc = "countUsers"
    /\ IF CountRows(users) = 0
       THEN pc' = "seedUsers" /\ idx' = 1
       ELSE pc' = "countPosts" /\ idx' = idx
    /\ UNCHANGED <<conn, failed, secret, store, now, issued, last, error,
                 run, inflight>>

\* one iteration of  for (const user of mockUsers)
SeedUser ==
    /\ pc = "seedUsers"
    /\ nextUserId <= MaxUserId
    /\ LET user == mockUsers[idx]
           r == InsertUser(user.username, user.email, BcryptHash(user.password))
       IN  /\ users' = r.rows
           /\ nextUserId' = r.next
           /\ error' = r.error
           /\ IF r.error # ""
              THEN failed' = TRUE /\ pc' = "finally" /\ idx' = idx
              ELSE /\ failed' = failed
                   /\ idx' = idx + 1
                   /\ pc' = IF idx = Len(mockUsers) THEN "countPosts" ELSE "seedUsers"
    /\ UNCHANGED <<conn, secret, schema, posts, nextPostId, now, issued,
                 last, run, inflight>>

\* SELECT COUNT(*) as count FROM posts;  if (count === 0) ...
CountPosts ==
    /\ pc = "countPosts"
    /\ IF CountRows(posts) = 0
       THEN pc' = "seedPosts" /\ idx' = 1
       ELSE pc' = "finally" /\ idx' = idx
    /\ UNCHANGED <<conn, failed, secret, store, now, issued, last, error,
                 run, inflight>>

\* one iteration of  for (const post of mockPosts)
SeedPost ==
    /\ pc = "seedPosts"
    /\ nextPostId <= MaxPostId
    /\ LET post == mockPosts[idx]
           r == InsertPost(post.title, post.content, post.user_id)
       IN  /\ posts' = r.rows
           /\ nextPostId' = r.next
           /\ error' = r.error
           /\ IF r.error # ""
              THEN failed' = TRUE /\ pc' = "finally" /\ idx' = idx
              ELSE /\ failed' = failed
                   /\ idx' = idx + 1
                   /\ pc' = IF idx = Len(mockPosts) THEN "finally" ELSE "seedPosts"
    /\ UNCHANGED <<conn, secret, schema, users, nextUserId, now, issued,
                 last, run, inflight>>

\* errors of the connection, as opposed to errors of a statement
ConnectError == "connect ECONNREFUSED"
QueryError == "Connection lost: the server closed the connection"
ConnectionErrors == {ConnectError, QueryError}

ConnectionEndLeaks(c) == c

\* await connection.end()
ConnectionEnd(c) == "closed"

AwaitCreateTablesCaught(rejected) == "listening"

\* await createTables() at the top level of the server module: a rejection
\* ends the process, a fulfilment lets the module go on to app.listen
AwaitCreateTables(rejected) == IF rejected THEN "exited" ELSE "listening"

\* finally { await connection.end() }; then the error is rethrown and the
\* process ends, or the middleware is installed and app.listen is called.
Finally ==
    /\ pc = "finally"
    /\ conn' = ConnectionEnd(conn)
    /\ pc' = AwaitCreateTables(failed)
    /\ run' = [run EXCEPT !.end = Tables]
    /\ UNCHANGED <<failed, idx, secret, store, now, issued, last, error,
                 inflight>>

\* mysql.createConnection rejects: createTables throws before its try block,
\* so no connection is opened or closed and the process ends.
ConnectFails ==
    /\ pc = "connect"
    /\ pc' = AwaitCreateTables(TRUE)
    /\ failed' = TRUE
    /\ error' = ConnectError
    /\ run' = [run EXCEPT !.end = Tables]
    /\ UNCHANGED <<conn, idx, secret, store, now, issued, last, inflight>>

QuerySteps ==
    {"createDb", "useDb", "usersTable", "postsTable", "countUsers", "seedUsers",
     "countPosts", "seedPosts"}

\* an awaited connection.query rejects (server gone, connection lost): control
\* passes to the catch block and from there to finally
QueryFails ==
    /\ pc \in QuerySteps
    /\ pc' = "finally"
    /\ failed' = TRUE
    /\ error' = QueryError
    /\ UNCHANGED <<conn, idx, secret, store, now, issued, last, run, inflight>>

\* the process is started again (npm run dev) on the same MySQL server
Restart ==
    /\ pc \in {"listening", "exited"}
    /\ pc' = "connect"
    /\ conn' = "none"
    /\ failed' = FALSE
    /\ idx' = 0
    /\ error' = ""
    /\ run' = [begin |-> Tables,
               prev |-> IF pc = "listening" THEN "ok" ELSE "aborted",
               successive |-> Tables = run.end,
               end |-> NoTables]
    /\ UNCHANGED <<secret, store, now, issued, last, inflight>>

createTables ==
    \/ Connect
    \/ CreateDatabase
    \/ UseDatabase
    \/ CreateUsersTable
    \/ CreatePostsTable
    \/ CountUsers
    \/ SeedUser
    \/ CountPosts
    \/ SeedPost
    \/ Finally

-----------------------------------------------------------------------------
(* The routes.  Each action is one request handled to its response, the     *)
(* authenticator included where the route installs it.                      *)

Request(op, hdr, id, body) ==
    [NoRequest EXCEPT !.op = op, !.hdr = hdr, !.id = id, !.body = body, !.at = now]

Error(req, status, msg) == [req EXCEPT !.status = status, !.msg = msg]

PublicWholeRow(u) == u

\* the columns SELECT id, username, email reads (and login's user object)
Public(u) == [id |-> u.id, username |-> u.username, email |-> u.email]

\* POST /api/users/register
UsersRegister(body) ==
    /\ pc = "listening"
    /\ nextUserId <= MaxUserId
    /\ LET req == Request("register", <<>>, 0, body) IN
       IF body.password = NULL
       THEN /\ last' = Error(req, 500, "data and salt arguments required")
            /\ UNCHANGED <<users, nextUserId>>
       ELSE LET r == InsertUser(body.username, body.email, BcryptHash(body.password)) IN
            /\ users' = r.rows
            /\ nextUserId' = r.next
            /\ last' = IF r.error # ""
                       THEN Error(req, 500, r.error)
                       ELSE [req EXCEPT !.status = 201, !.msg = "User created",
                                        !.insertId = r.insertId]
    /\ UNCHANGED <<pc, boot, secret, schema, posts, nextPostId, now, issued,
                 error, run, inflight>>

LoginSkipsPassword(password, user) == TRUE

\* const validPassword = await bcrypt.compare(password, user.password)
LoginPasswordValid(password, user) == BcryptCompare(password, user.password)

\* the claims login signs: { id: user.id, email: user.email }
LoginClaims(user) == [id |-> user.id, email |-> user.email]

\* POST /api/users/login
UsersLogin(body) ==
    /\ pc = "listening"
    /\ LET req == Request("login", <<>>, 0, body)
           rows == {u \in users : u.email = body.email}
       IN  IF rows = {}
           THEN /\ last' = Error(req, 401, "Invalid credentials")
                /\ issued' = issued
           ELSE LET user == CHOOSE u \in rows : TRUE IN
                IF body.password = NULL
                THEN /\ last' = Error(req, 500, "data and hash arguments required")
                     /\ issued' = issued
                ELSE IF ~LoginPasswordValid(body.password, user)
                THEN /\ last' = Error(req, 401, "Invalid credentials")
                     /\ issued' = issued
                ELSE IF secret = NULL
                THEN /\ last' = Error(req, 500, "secretOrPrivateKey must have a value")
                     /\ issued' = issued
                ELSE LET claims == LoginClaims(user)
                         token == JwtSign(claims.id, claims.email, secret, now)
                     IN  /\ token \in issued \/ Cardinality(issued) < MaxTokens
                         /\ issued' = issued \cup {token}
                         /\ last' = [req EXCEPT !.status = 200, !.token = token,
                                                !.user = Public(user)]
    /\ UNCHANGED <<pc, boot, secret, store, now, error, run, inflight>>

\* GET /api/users/profile
UsersProfile(hdr) ==
    /\ pc = "listening"
    /\ LET req == Request("profile", hdr, 0, NoBody)
           auth == authMiddleware(hdr)
       IN  IF ~auth.next
           THEN last' = Error(req, auth.status, auth.error)
           ELSE LET rows == {u \in users : u.id = auth.user.id} IN
                last' = [req EXCEPT !.status = 200,
                             !.user = IF rows = {} THEN NoUser
                                      ELSE Public(CHOOSE u \in rows : TRUE)]
    /\ UNCHANGED <<pc, boot, secret, store, now, issued, error, run, inflight>>

\* The orders in which  SELECT * FROM posts ORDER BY created_at DESC  may
\* return the rows: by descending created_at, and rows of equal created_at
\* in whichever order the server produces them.
RECURSIVE OrderByCreatedAtDesc(_)
OrderByCreatedAtDesc(rows) ==
    IF rows = {} THEN {<<>>}
    ELSE LET newest == {p \in rows : \A q \in rows : q.created_at <= p.created_at}
         IN  UNION { {<<p>> \o rest : rest \in OrderByCreatedAtDesc(rows \ {p})} :
                     p \in newest }

\* GET /api/posts
PostsGetAll ==
    /\ pc = "listening"
    /\ \E rows \in OrderByCreatedAtDesc(posts) :
          last' = [Request("list", <<>>, 0, NoBody) EXCEPT
                       !.status = 200,
                       !.list = [i \in 1..Len(rows) |-> rows[i].id]]
    /\ UNCHANGED <<pc, boot, secret, store, now, issued, error, run, inflight>>

\* the response of GET /api/posts/:id on table tbl
GetOneResponse(tbl, req) ==
    LET rows == {p \in tbl : p.id = req.id} IN
    IF rows = {} THEN Error(req, 404, "Post not found")
    ELSE [req EXCEPT !.status = 200, !.post = CHOOSE p \in rows : TRUE]

\* GET /api/posts/:id
PostsGetOne(id) ==
    /\ pc = "listening"
    /\ last' = GetOneResponse(posts, Request("getOne", <<>>, id, NoBody))
    /\ UNCHANGED <<pc, boot, secret, store, now, issued, error, run, inflight>>

CreateOwnerFromBody(auth, body) == IF body.user_id # 0 THEN body.user_id ELSE auth.user.id

\* the owner POST /api/posts stores with the post: req.user.id
CreateOwner(auth, body) == auth.user.id

\* POST /api/posts
PostsCreate(hdr, body) ==
    /\ pc = "listening"
    /\ LET req == Request("create", hdr, 0, body)
           auth == authMiddleware(hdr)
       IN  IF ~auth.next
           THEN /\ last' = Error(req, auth.status, auth.error)
                /\ UNCHANGED <<posts, nextPostId>>
           ELSE LET r == InsertPost(body.title, body.content, CreateOwner(auth, body)) IN
                /\ nextPostId <= MaxPostId
                /\ posts' = r.rows
                /\ nextPostId' = r.next
                /\ last' = IF r.error # ""
                           THEN Error(req, 500, r.error)
                           ELSE [req EXCEPT !.status = 201, !.msg = "Post created",
                                            !.insertId = r.insertId]
    /\ UNCHANGED <<pc, boot, secret, schema, users, nextUserId, now, issued,
                 error, run, inflight>>

UpdateResponseForbidden(tbl, req, auth) ==
    IF ~auth.next THEN Error(req, auth.status, auth.error)
    ELSE IF UpdateMatch(tbl, req.id, auth.user.id) = {} /\ \E p \in tbl : p.id = req.id
    THEN Error(req, 403, "Forbidden")
    ELSE LET r == UpdatePost(tbl, req.body.title, req.body.content, req.id, auth.user.id) IN
         IF r.error # "" THEN Error(req, 500, r.error)
         ELSE IF r.affectedRows = 0
         THEN Error(req, 404, "Post not found or unauthorized")
         ELSE [req EXCEPT !.status = 200, !.msg = "Post updated"]

\* the response of PUT /api/posts/:id on table tbl
UpdateResponse(tbl, req, auth) ==
    IF ~auth.next THEN Error(req, auth.status, auth.error)
    ELSE LET r == UpdatePost(tbl, req.body.title, req.body.content, req.id, auth.user.id) IN
         IF r.error # "" THEN Error(req, 500, r.error)
         ELSE IF r.affectedRows = 0
         THEN Error(req, 404, "Post not found or unauthorized")
         ELSE [req EXCEPT !.status = 200, !.msg = "Post updated"]

\* PUT /api/posts/:id
PostsUpdate(hdr, id, body) ==
    /\ pc = "listening"
    /\ LET req == Request("update", hdr, id, body)
           auth == authMiddleware(hdr)
       IN  /\ last' = UpdateResponse(posts, req, auth)
           /\ posts' = IF auth.next
                       THEN UpdatePost(posts, body.title, body.content, id, auth.user.id).rows
                       ELSE posts
    /\ UNCHANGED <<pc, boot, secret, schema, users, nextUserId, nextPostId,
                 now, issued, error, run, inflight>>

\* the response of DELETE /api/posts/:id on table tbl
DeleteResponse(tbl, req, auth) ==
    IF ~auth.next THEN Error(req, auth.status, auth.error)
    ELSE IF DeletePost(tbl, req.id, auth.user.id).affectedRows = 0
    THEN Error(req, 404, "Post not found or unauthorized")
    ELSE [req EXCEPT !.status = 200, !.msg = "Post deleted"]

\* DELETE /api/posts/:id
PostsDelete(hdr, id) ==
    /\ pc = "listening"
    /\ LET req == Request("delete", hdr, id, NoBody)
           auth == authMiddleware(hdr)
       IN  /\ last' = DeleteResponse(posts, req, auth)
           /\ posts' = IF auth.next THEN DeletePost(posts, id, auth.user.id).rows ELSE posts
    /\ UNCHANGED <<pc, boot, secret, schema, users, nextUserId, nextPostId,
                 now, issued, error, run, inflight>>

-----------------------------------------------------------------------------
(* PUT and DELETE of posts handled concurrently.  A handler runs up to its  *)
(* await of db.query; the statement then executes in MySQL, atomically, at  *)
(* some later moment, other requests being received and other statements    *)
(* executing in between; the handler's continuation answers from the        *)
(* statement's result.                                                      *)

\* PUT or DELETE /api/posts/:id up to the await: authMiddleware has answered
\* 401, or has set req.user and the handler has sent its statement
Receive(op, hdr, id, body) ==
    /\ pc = "listening"
    /\ Cardinality(inflight) < MaxInflight
    /\ LET auth == authMiddleware(hdr)
           req == [n |-> Cardinality(inflight) + 1, op |-> op, hdr |-> hdr,
                   id |-> id, body |-> body, user |-> auth.user,
                   state |-> "pending", order |-> 0, status |-> 0, msg |-> ""]
       IN  inflight' = inflight \cup
               { IF auth.next THEN req
                 ELSE [req EXCEPT !.state = "answered", !.status = auth.status,
                                  !.msg = auth.error] }
    /\ UNCHANGED <<pc, boot, secret, store, now, issued, last, error, run>>

NotFoundNever(result) == FALSE

\* if (result.affectedRows === 0)
NotFound(result) == result.affectedRows = 0

\* the statement of pending request r executes and its handler answers
Complete(r) ==
    /\ pc = "listening"
    /\ r \in inflight
    /\ r.state = "pending"
    /\ LET result == IF r.op = "update"
                     THEN UpdatePost(posts, r.body.title, r.body.content, r.id, r.user.id)
                     ELSE DeletePost(posts, r.id, r.user.id)
           executed == Cardinality({q \in inflight : q.order > 0})
           status == IF result.error # "" THEN 500
                     ELSE IF NotFound(result) THEN 404
                     ELSE 200
           msg == IF result.error # "" THEN result.error
                  ELSE IF NotFound(result) THEN "Post not found or unauthorized"
                  ELSE IF r.op = "update" THEN "Post updated"
                  ELSE "Post deleted"
       IN  /\ posts' = result.rows
           /\ inflight' = (inflight \ {r}) \cup
                  {[r EXCEPT !.state = "answered", !.order = executed + 1,
                             !.status = status, !.msg = msg]}
    /\ UNCHANGED <<pc, boot, secret, schema, users, nextUserId, nextPostId,
                 now, issued, last, error, run>>

\* time passes (in steps of hours: startup takes none)
Tick ==
    /\ pc = "listening"
    /\ now + TickHours <= MaxNow
    /\ now' = now + TickHours
    /\ UNCHANGED <<pc, boot, secret, store, issued, last, error, run, inflight>>

-----------------------------------------------------------------------------
(* Requests *)

\* a fresh account, and the username or the email of a seed account
RegisterBodies ==
    { [username |-> "a", email |-> "a@x.com", password |-> "p1"],
      [username |-> "johndoe", email |-> "j@x.com", password |-> "p1"],
      [username |-> "j", email |-> "john@example.com", password |-> "p1"] }

\* a seed account's password, a wrong one, the other seed account, and the
\* account a registration creates (unknown until then)
LoginBodies ==
    { [email |-> "john@example.com", password |-> "password123"],
      [email |-> "john@example.com", password |-> "p1"],
      [email |-> "jane@example.com", password |-> "password456"],
      [email |-> "a@x.com", password |-> "p1"] }

\* title, content, and a user_id field the handlers never read (0: not sent)
PostBodies ==
    { [title |-> "t", content |-> "c", user_id |-> 0],
      [title |-> "u", content |-> "d", user_id |-> 2],
      [title |-> NULL, content |-> "c", user_id |-> 0],
      [title |-> "t", content |-> NULL, user_id |-> 0],
      [title |-> LongTitle, content |-> "c", user_id |-> 0] }

\* a seed post, and the first id the API allocates
PostIds == {1, Len(mockPosts) + 1}

Bearer(token) == <<Word("Bearer"), token>>

\* no header, or a token obtained from login
Headers == {<<>>} \cup {Bearer(t) : t \in issued}

Next ==
    \/ createTables
    \/ \E body \in RegisterBodies : UsersRegister(body)
    \/ \E body \in LoginBodies : UsersLogin(body)
    \/ \E hdr \in Headers : UsersProfile(hdr)
    \/ \E id \in PostIds : PostsGetOne(id)
    \/ \E hdr \in Headers, body \in PostBodies : PostsCreate(hdr, body)
    \/ \E hdr \in Headers, id \in PostIds, body \in PostBodies : PostsUpdate(hdr, id, body)
    \/ \E hdr \in Headers, id \in PostIds : PostsDelete(hdr, id)

Spec == Init /\ [][Next]_vars

(* The authenticator under time and under every shape of header.           *)

\* a token whose id claim was altered after issuance (the signature kept)
Tamper(t) == [t EXCEPT !.id = IF t.id = 1 THEN 2 ELSE 1]

\* a token whose expiry claim was altered after issuance (the signature kept)
Prolong(t) == [t EXCEPT !.exp = t.exp + ExpiresInHours]

\* a token signed by someone who does not hold the secret
Forged == JwtSign(1, "john@example.com", "guess", now)

Credentials ==
    issued \cup {Tamper(t) : t \in issued} \cup {Prolong(t) : t \in issued}
           \cup {Forged, Garbage}

AuthHeaders ==
    {<<>>, <<Word("Bearer")>>, <<Word("Bearer"), Word("")>>}
        \cup {Bearer(c) : c \in Credentials}
        \cup {<<t>> : t \in issued}
        \cup {<<Word("Basic"), t>> : t \in issued}
        \cup {<<Word("Bearer"), t, Word("x")>> : t \in issued}

AuthLoginBodies == { [email |-> "john@example.com", password |-> "password123"] }

AuthPostBodies == { [title |-> "t", content |-> "c", user_id |-> 0] }

AuthPostIds == {1}

NextAuth ==
    \/ createTables
    \/ Tick
    \/ \E body \in AuthLoginBodies : UsersLogin(body)
    \/ \E hdr \in AuthHeaders : UsersProfile(hdr)
    \/ \E hdr \in AuthHeaders, body \in AuthPostBodies : PostsCreate(hdr, body)
    \/ \E hdr \in AuthHeaders, id \in AuthPostIds, body \in AuthPostBodies :
          PostsUpdate(hdr, id, body)
    \/ \E hdr \in AuthHeaders, id \in AuthPostIds : PostsDelete(hdr, id)

SpecAuth == Init /\ [][NextAuth]_vars

-----------------------------------------------------------------------------
(* Startup, repeated and failing, with registrations in between.            *)

BootRegisterBodies ==
    { [username |-> "a", email |-> "a@x.com", password |-> "p1"],
      [username |-> "janedoe", email |-> "jane@example.com", password |-> "p2"] }

NextBoot ==
    \/ createTables
    \/ ConnectFails
    \/ QueryFails
    \/ Restart
    \/ \E body \in BootRegisterBodies : UsersRegister(body)

SpecBoot == Init /\ [][NextBoot]_vars

-----------------------------------------------------------------------------
(* Reading all posts, at any time after startup: the seed posts are        *)
(* inserted one after the other within one tick of created_at.              *)

NextRead ==
    \/ createTables
    \/ Tick
    \/ PostsGetAll

SpecRead == Init /\ [][NextRead]_vars

-----------------------------------------------------------------------------
(* Concurrent PUT and DELETE requests on one post, by its owner and by      *)
(* another account.                                                         *)

ConcLoginBodies ==
    { [email |-> "john@example.com", password |-> "password123"],
      [email |-> "jane@example.com", password |-> "password456"] }

ConcPostBodies ==
    { [title |-> "t", content |-> "c"],
      [title |-> LongTitle, content |-> "c"] }

ConcPostIds == {1}

NextConc ==
    \/ createTables
    \/ \E body \in ConcLoginBodies : UsersLogin(body)
    \/ \E hdr \in Headers, id \in ConcPostIds, body \in ConcPostBodies :
          Receive("update", hdr, id, body)
    \/ \E hdr \in Headers, id \in ConcPostIds : Receive("delete", hdr, id, NoBody)
    \/ \E r \in inflight : Complete(r)

SpecConc == Init /\ [][NextConc]_vars

-----------------------------------------------------------------------------
(* Startup under either configuration of the signing secret.                *)

\* dotenv.config(): .env sets JWT_SECRET, or the variable is absent
Secrets == {JWT_SECRET, NULL}

InitEnv ==
    /\ pc = "connect"
    /\ conn = "none"
    /\ failed = FALSE
    /\ idx = 0
    /\ secret \in Secrets
    /\ schema = {}
    /\ users = {}
    /\ nextUserId = 1
    /\ posts = {}
    /\ nextPostId = 1
    /\ now = 0
    /\ issued = {}
    /\ last = NoRequest
    /\ error = ""
    /\ run = FirstRun
    /\ inflight = {}

NextEnv ==
    \/ createTables
    \/ Tick
    \/ \E body \in LoginBodies : UsersLogin(body)
    \/ \E hdr \in AuthHeaders : UsersProfile(hdr)

SpecEnv == InitEnv /\ [][NextEnv]_vars

-----------------------------------------------------------------------------
(* Properties *)

\* hdr carries, as its credential, a token login issued that has not expired
PresentsToken(hdr) ==
    /\ Len(hdr) >= 2
    /\ hdr[2] \in issued
    /\ now < hdr[2].iat + ExpiresInHours

\* hdr carries an unexpired issued token whose id claim is uid
PresentsTokenOf(hdr, uid) == PresentsToken(hdr) /\ hdr[2].id = uid

Mutation == {"update", "delete"}

\* the step is a request handled by a route: last' is that request and its
\* response (the other steps are those of startup, and the passing of time)
Handled == pc = "listening" /\ pc' = "listening" /\ now' = now

\* a body the posts table's columns accept
StorableBody(body) ==
    /\ body.title # NULL
    /\ body.content # NULL
    /\ Len(body.title) <= TitleMaxLen

C1_Step ==
    /\ \A p \in posts : p \notin posts' =>
          /\ Handled
          /\ last'.op \in Mutation
          /\ last'.id = p.id
          /\ last'.status = 200
          /\ PresentsTokenOf(last'.hdr, p.user_id)
    /\ \A p \in posts :
          ( /\ Handled
            /\ last'.op \in Mutation
            /\ last'.id = p.id
            /\ PresentsToken(last'.hdr)
            /\ last'.hdr[2].id # p.user_id )
          => /\ posts' = posts
             /\ last'.status = 404
             /\ last'.msg = "Post not found or unauthorized"

\* C1: a post row changes or disappears only in a step that is a PUT or DELETE
\* on its id, answered 200, whose token carries the row's owner id; a PUT or
\* DELETE with a valid token of another account leaves the table unchanged and
\* is answered 404 "Post not found or unauthorized".
C1_OwnerOnlyMutation == [][C1_Step]_vars

\* a PUT by a valid non-owner on an existing post was answered 404, in a store
\* where an owner has already rewritten one of their posts
C1_Witness ==
    /\ last.op = "update"
    /\ last.status = 404
    /\ PresentsToken(last.hdr)
    /\ \E p \in posts : p.id = last.id /\ p.user_id # last.hdr[2].id
    /\ \E p \in posts : p.title = "u"

\* C2: for every caller holding a valid token and every PUT or DELETE they can
\* send, the response computed on the store equals the response computed on
\* the store without any one post, or without all posts, that the caller does
\* not own: a non-owned post answers exactly like an absent one.
C2_NoExistenceLeak ==
    pc = "listening" =>
    \A t \in issued : \A id \in PostIds :
        LET hdr == Bearer(t)
            auth == authMiddleware(hdr)
            others == {p \in posts : p.user_id # t.id}
            del == Request("delete", hdr, id, NoBody)
        IN  \A hidden \in {others} \cup {{p} : p \in others} :
              /\ DeleteResponse(posts, del, auth) = DeleteResponse(posts \ hidden, del, auth)
              /\ \A body \in PostBodies :
                    LET put == Request("update", hdr, id, body) IN
                    UpdateResponse(posts, put, auth) = UpdateResponse(posts \ hidden, put, auth)

\* a DELETE by a valid non-owner on an existing post was answered 404
C2_Witness ==
    /\ last.op = "delete"
    /\ last.status = 404
    /\ PresentsToken(last.hdr)
    /\ \E p \in posts : p.id = last.id /\ p.user_id # last.hdr[2].id

\* a body that submits a title and a content
SubmitsBoth(body) == body.title # NULL /\ body.content # NULL

C3_Step(storable) ==
    \A p \in posts :
        (Handled /\ last'.id = p.id /\ PresentsTokenOf(last'.hdr, p.user_id)) =>
            /\ ( /\ last'.op = "update"
                 /\ SubmitsBoth(last'.body)
                 /\ (storable => StorableBody(last'.body)) ) =>
                  /\ last'.status = 200
                  /\ \E q \in posts' : /\ q.id = p.id
                                       /\ q.title = last'.body.title
                                       /\ q.content = last'.body.content
            /\ last'.op = "delete" =>
                  /\ last'.status = 200
                  /\ ~\E q \in posts' : q.id = p.id
                  /\ GetOneResponse(posts', Request("getOne", <<>>, p.id, NoBody)).status = 404

Verifies(body) ==
    {u \in users : u.email = body.email /\ BcryptCompare(body.password, u.password)}

C7_Step ==
    /\ (Handled /\ last'.op = "login") =>
          IF Verifies(last'.body) # {}
          THEN /\ last'.status = 200
               /\ last'.token \in issued'
               /\ \E u \in Verifies(last'.body) :
                     /\ last'.token.id = u.id
                     /\ last'.token.email = u.email
          ELSE /\ last'.status = 401
               /\ last'.msg = "Invalid credentials"
               /\ last'.token = NoToken
               /\ issued' = issued
    /\ issued' # issued =>
          /\ Handled
          /\ last'.op = "login"
          /\ last'.status = 200
          /\ issued' = issued \cup {last'.token}

\* C7: a login whose email names an account whose stored hash the password
\* verifies against is answered 200 with a token whose claims are that
\* account's id and email; any other login is answered 401 "Invalid
\* credentials", whether the email is unknown or the password wrong, and
\* issues nothing; no other step issues a token.
C7_LoginIssuesOnlyOnMatch == [][C7_Step]_vars

\* a login with the wrong password for an existing account was answered 401
\* after another login had been issued a token
C7_Witness ==
    /\ last.op = "login"
    /\ last.status = 401
    /\ \E u \in users : u.email = last.body.email
    /\ issued # {}

Clashes(body, rows) ==
    \E u \in rows : u.username = body.username \/ u.email = body.email

C9_Step ==
    /\ (Handled /\ last'.op = "register") =>
          IF Clashes(last'.body, users)
          THEN /\ last'.status = 500
               /\ users' = users
          ELSE /\ last'.status = 201
               /\ \A u \in users : u.id # last'.insertId
               /\ \E n \in users' :
                     /\ users' = users \cup {n}
                     /\ n \notin users
                     /\ n.id = last'.insertId
                     /\ n.username = last'.body.username
                     /\ n.email = last'.body.email
    /\ \A u, v \in users' :
          (u.username = v.username \/ u.email = v.email \/ u.id = v.id) => u = v

C10_Step(storable) ==
    ( /\ Handled
      /\ last'.op = "create"
      /\ PresentsToken(last'.hdr)
      /\ (storable => StorableBody(last'.body)) ) =>
        /\ last'.status = 201
        /\ \A p \in posts : p.id # last'.insertId
        /\ \E q \in posts' :
              /\ posts' = posts \cup {q}
              /\ q \notin posts
              /\ q.id = last'.insertId
              /\ q.user_id = last'.hdr[2].id
              /\ q.title = last'.body.title
              /\ q.content = last'.body.content

Protected == {"profile", "create", "update", "delete"}

C4_Step ==
    (Handled /\ last'.op \in Protected /\ ~PresentsToken(last'.hdr)) =>
        /\ last'.status = 401
        /\ last'.msg \in {"No token provided", "Invalid token"}
        /\ UNCHANGED <<schema, users, nextUserId, posts, nextPostId, issued>>

\* C4: a request to a protected route whose header carries no credential, or
\* one that is not an unexpired token issued by login (malformed, forged,
\* altered, expired), is answered 401 by the authenticator and leaves the
\* schema, the accounts, the posts and their counters unchanged.
C4_UnauthenticatedIsInert == [][C4_Step]_vars

\* a PUT on an existing post presenting its owner's expired token was
\* answered 401 "Invalid token"
C4_Witness ==
    /\ last.op = "update"
    /\ last.status = 401
    /\ last.msg = "Invalid token"
    /\ Len(last.hdr) = 2
    /\ last.hdr[2] \in issued
    /\ last.at >= last.hdr[2].exp
    /\ \E p \in posts : p.id = last.id /\ p.user_id = last.hdr[2].id

\* the header has the shape "Bearer <credential>"
BearerShape(hdr) ==
    /\ Len(hdr) = 2
    /\ hdr[1] = Word("Bearer")
    /\ ~Falsy(hdr[2])

\* C5: every request to a protected route whose Authorization header is
\* absent or is not of the two-part shape "Bearer <credential>" is answered
\* 401 "No token provided" (its credential is never verified).
C5_ShapeEnforced ==
    (last.op \in Protected /\ ~BearerShape(last.hdr)) =>
        (last.status = 401 /\ last.msg = "No token provided")

C6_Step ==
    (Handled /\ last'.op \in Protected /\ Len(last'.hdr) >= 2) =>
        LET c == last'.hdr[2] IN
        /\ c \in issued =>
              /\ now < c.iat + ExpiresInHours => last'.status # 401
              /\ now > c.iat + ExpiresInHours =>
                    (last'.status = 401 /\ last'.msg = "Invalid token")
        /\ (\E t \in issued : c \in {Tamper(t), Prolong(t)}) =>
              (last'.status = 401 /\ last'.msg = "Invalid token")

\* C6: a request presenting a token login issued is let through by the
\* authenticator at every instant before issue time + 24 h, whatever was
\* handled since the login, and is answered 401 at every instant after it; a
\* request presenting an issued token with an altered claim is answered 401.
C6_ValidUntilExpiry == [][C6_Step]_vars

\* a token was rejected after its expiry, having been let through at an
\* instant after its issue: it is the only token of its account, and that
\* account created a post after the token's issue
C6_Witness ==
    /\ last.op \in Protected
    /\ last.status = 401
    /\ Len(last.hdr) = 2
    /\ last.hdr[2] \in issued
    /\ last.at > last.hdr[2].exp
    /\ \A t \in issued : t.id = last.hdr[2].id => t = last.hdr[2]
    /\ \E q \in posts : /\ q.user_id = last.hdr[2].id
                        /\ q.id > Len(mockPosts)
                        /\ q.created_at > last.hdr[2].iat

\* every plaintext password the model submits or seeds
Plaintexts ==
    {mockUsers[i].password : i \in 1..Len(mockUsers)}
        \cup {b.password : b \in RegisterBodies \cup BootRegisterBodies}

C8_Step ==
    /\ \A n \in users' \ users :
          LET plain == IF pc = "seedUsers" THEN mockUsers[idx].password
                       ELSE last'.body.password
          IN  /\ pc = "seedUsers" \/ (Handled /\ last'.op = "register")
              /\ n.password # plain
              /\ BcryptCompare(plain, n.password)
    /\ users \subseteq users'
    /\ \A u \in users' : u.password \notin Plaintexts

\* C8: an account is added only by a seeding step of the bootstrap or by a
\* registration, and its password field then differs from the plaintext
\* seeded or submitted and verifies against it; accounts are never changed or
\* removed afterwards; so in every state no password field is a plaintext.
C8_PasswordsHashed == [][C8_Step]_vars

\* a bootstrap run finds accounts already stored, a registered one among them
C8_Witness ==
    /\ pc = "countUsers"
    /\ \E u \in users : u.id > Len(mockUsers)
    /\ \E u \in users : u.username = mockUsers[1].username

-----------------------------------------------------------------------------
(* Properties of startup *)

\* createTables is running (the process has neither exited nor begun to listen)
InBootstrap == pc \notin {"listening", "exited"}

\* the seed accounts and seed posts held, counted by username and by title
SeedUserRows(i) == {u \in users : u.username = mockUsers[i].username}
SeedPostRows(i) == {p \in posts : p.title = mockPosts[i].title}

\* C11: a run of createTables that follows a successful run, nothing having
\* touched the database in between, never enters a seeding loop, raises no
\* statement error, and at each of its steps the schema, the accounts and the
\* posts are exactly those the first run left, no seed row being held twice.
C11_Idempotent ==
    (InBootstrap /\ run.prev = "ok" /\ run.successive) =>
        /\ Tables = run.begin
        /\ pc \notin {"seedUsers", "seedPosts"}
        /\ error \in {""} \cup ConnectionErrors
        /\ \A i \in 1..Len(mockUsers) : Cardinality(SeedUserRows(i)) <= 1
        /\ \A i \in 1..Len(mockPosts) : Cardinality(SeedPostRows(i)) <= 1

\* a second run in succession has gone through all its steps without error,
\* on a database holding the seed accounts and the seed posts
C11_Witness ==
    /\ pc = "finally"
    /\ run.prev = "ok"
    /\ run.successive
    /\ error = ""
    /\ Cardinality(users) >= Len(mockUsers)
    /\ Cardinality(posts) = Len(mockPosts)

\* C12: when a run of createTables that began on a database with accounts but
\* no posts has gone through its steps (the connection not having failed),
\* no error was raised, the accounts are those it began with and every seed
\* post is held exactly once, whichever the accounts; and when it began with
\* posts but no accounts, the posts are those it began with and every seed
\* account is held exactly once.
C12_IndependentGates ==
    (pc = "finally" /\ error \notin ConnectionErrors) =>
        /\ (run.begin.users # {} /\ run.begin.posts = {}) =>
               /\ error = ""
               /\ users = run.begin.users
               /\ Cardinality(posts) = Len(mockPosts)
               /\ \A i \in 1..Len(mockPosts) : Cardinality(SeedPostRows(i)) = 1
        /\ (run.begin.users = {} /\ run.begin.posts # {}) =>
               /\ error = ""
               /\ posts = run.begin.posts
               /\ Cardinality(users) = Len(mockUsers)
               /\ \A i \in 1..Len(mockUsers) : Cardinality(SeedUserRows(i)) = 1

\* C19: when a run of createTables that began after an aborted run has gone
\* through its steps (the connection not having failed), no error was raised
\* and every seed account and every seed post is held exactly once.
C19_RecoversFromAbort ==
    (pc = "finally" /\ run.prev = "aborted" /\ error \notin ConnectionErrors) =>
        /\ error = ""
        /\ \A i \in 1..Len(mockUsers) : Cardinality(SeedUserRows(i)) = 1
        /\ \A i \in 1..Len(mockPosts) : Cardinality(SeedPostRows(i)) = 1

\* the step ends a run of createTables: the promise settles and the process
\* exits or goes on to listen
EndsRun == InBootstrap /\ ~InBootstrap'

C13_Step ==
    /\ (~failed /\ failed') =>
          /\ pc' \in {"finally", "exited"}
          /\ error' # ""
    /\ (failed /\ pc # "exited") =>
          /\ pc = "finally"
          /\ pc' = "exited"
          /\ store' = store
          /\ error' = error
    /\ EndsRun =>
          /\ conn' # "open"
          /\ conn # "none" => conn' = "closed"
          /\ pc' = "exited" <=> failed'

\* C13: the step at which createTables fails leads to its finally block (or,
\* before the connection exists, out of the process) with an error; from
\* then on the one step taken is the closing of the connection, which leaves
\* the database as it is and ends the process with that error; and whenever
\* a run ends, failed or not, a connection it opened is closed.
C13_AbortAndRelease == [][C13_Step]_vars

\* a run ended on a statement error in the middle of the post seeding loop,
\* and its connection is closed
C13_Witness ==
    /\ pc = "exited"
    /\ failed
    /\ error \notin ConnectionErrors
    /\ conn = "closed"
    /\ Cardinality(posts) \in 1..(Len(mockPosts) - 1)

C14_Step ==
    /\ (last' # last \/ inflight' # inflight) =>
          /\ pc = "listening"
          /\ pc' = "listening"
    /\ (pc # "listening" /\ pc' = "listening") =>
          /\ pc = "finally"
          /\ ~failed
          /\ error = ""
          /\ schema' = {"db", "users", "posts"}
          /\ conn' = "closed"
    /\ failed => pc' # "listening"

\* C14: the process comes to listen only from the end of a run of
\* createTables that raised no error, the schema being complete; a process
\* whose run failed never listens; and a request is handled only by a
\* process that is listening.
C14_ListensAfterBootstrap == [][C14_Step]_vars

\* a request was served by a process whose predecessor's bootstrap failed
C14_Witness ==
    /\ pc = "listening"
    /\ run.prev = "aborted"
    /\ last.op = "register"
    /\ last.status = 201

\* C15: a process started without the signing secret never comes to listen.
C15_FailsFast == secret = NULL => pc # "listening"

\* C16: the array GET /api/posts answers with holds every post of the table
\* once and nothing else, and a post created after another (the one with the
\* greater id: AUTO_INCREMENT hands out ascending ids) stands before it, also
\* when both carry the same created_at.
C16_NewestFirst ==
    (last.op = "list" /\ last.at = now /\ pc = "listening") =>
        /\ last.status = 200
        /\ Len(last.list) = Cardinality(posts)
        /\ {last.list[i] : i \in 1..Len(last.list)} = {p.id : p \in posts}
        /\ \A i, j \in 1..Len(last.list) : i < j => last.list[i] > last.list[j]

C17_Step ==
    (Handled /\ last'.op = "profile" /\ PresentsToken(last'.hdr)) =>
        /\ last'.status = 200
        /\ DOMAIN last'.user = {"id", "username", "email"}
        /\ \E u \in users :
              /\ u.id = last'.hdr[2].id
              /\ last'.user.id = u.id
              /\ last'.user.username = u.username
              /\ last'.user.email = u.email

\* C17: GET profile presenting an issued, unexpired token is answered 200
\* with exactly the id, the username and the email of the account whose id
\* the token carries, whatever the state of the store, and without the
\* password field.
C17_ProfileOfTokenAccount == [][C17_Step]_vars

\* a profile was read with a token issued earlier, after posts had changed
C17_Witness ==
    /\ last.op = "profile"
    /\ last.status = 200
    /\ last.user.username = mockUsers[1].username
    /\ last.at > last.hdr[2].iat
    /\ Cardinality(posts) # Len(mockPosts)

-----------------------------------------------------------------------------
(* Properties of concurrent requests *)

\* the requests whose statement has executed, which order numbers 1, 2, ...
Executed == {r \in inflight : r.order > 0}

\* the posts table as startup leaves it on an empty database
SeedTable ==
    { [id |-> i, title |-> mockPosts[i].title, content |-> mockPosts[i].content,
       user_id |-> mockPosts[i].user_id, created_at |-> 0] : i \in 1..Len(mockPosts) }

\* The posts table after the first k executed requests were handled one at a
\* time, each from its arrival to its response, in the order of their
\* statements (as PostsUpdate and PostsDelete handle them).
RECURSIVE SerialTable(_)
SerialTable(k) ==
    IF k = 0 THEN SeedTable
    ELSE LET r == CHOOSE q \in Executed : q.order = k
             tbl == SerialTable(k - 1)
             auth == authMiddleware(r.hdr)
         IN  IF ~auth.next THEN tbl
             ELSE IF r.op = "update"
             THEN UpdatePost(tbl, r.body.title, r.body.content, r.id, auth.user.id).rows
             ELSE DeletePost(tbl, r.id, auth.user.id).rows

\* the response to r when handled alone on table tbl
SerialAnswer(r, tbl) ==
    IF r.op = "update"
    THEN UpdateResponse(tbl, Request(r.op, r.hdr, r.id, r.body), authMiddleware(r.hdr))
    ELSE DeleteResponse(tbl, Request(r.op, r.hdr, r.id, r.body), authMiddleware(r.hdr))

\* every answer given so far, and the table, are those of handling the
\* requests one at a time in the order in which their statements executed
Serializable ==
    /\ \A k \in 1..Cardinality(Executed) : \E r \in Executed : r.order = k
    /\ posts = SerialTable(Cardinality(Executed))
    /\ \A r \in inflight :
          r.state = "answered" =>
              LET alone == SerialAnswer(r, SerialTable(IF r.order = 0 THEN 0 ELSE r.order - 1))
              IN  /\ r.status = alone.status
                  /\ r.msg = alone.msg

\* the DELETE requests for post id that were answered 200
DeletedOk(id) == {r \in inflight : r.op = "delete" /\ r.id = id /\ r.status = 200}

\* C18: however the statements of concurrently received PUT and DELETE
\* requests interleave, every answer and the resulting table are those of
\* handling the requests one at a time in the order their statements
\* executed; a PUT or DELETE is answered 200 only if, at the moment its
\* statement executes, the post exists and belongs to the caller, and the
\* statement has then written or removed it; a request answered otherwise
\* changed nothing; and no post has two DELETEs answered 200.
C18_AtomicOwnershipCheck ==
    pc = "listening" =>
        /\ Serializable
        /\ \A id \in 1..MaxPostId : Cardinality(DeletedOk(id)) <= 1
        /\ \A r \in Executed :
              LET before == SerialTable(r.order - 1)
                  after == SerialTable(r.order)
                  owned == {p \in before : p.id = r.id /\ p.user_id = r.user.id}
              IN  /\ PresentsTokenOf(r.hdr, r.user.id)
                  /\ r.status = 200 => owned # {}
                  /\ (r.status = 200 /\ r.op = "update") =>
                        \E p \in owned :
                            [p EXCEPT !.title = r.body.title,
                                      !.content = r.body.content] \in after
                  /\ (r.status = 200 /\ r.op = "delete") =>
                        ~\E p \in after : p.id = r.id
                  /\ r.status # 200 => after = before

\* two DELETEs of one post by its owner overlapped (the one received later
\* executed first): the later got 200, the earlier 404; and a PUT by the
\* owner, executed after them, got 404
C18_Witness ==
    \E r1, r2, r3 \in inflight :
        /\ r1.op = "delete" /\ r2.op = "delete" /\ r3.op = "update"
        /\ r1.id = r2.id /\ r3.id = r1.id
        /\ r1.n < r2.n
        /\ r2.order > 0 /\ r1.order > r2.order /\ r3.order > r1.order
        /\ r2.status = 200
        /\ r1.status = 404
        /\ r3.status = 404

====
